---- MODULE Spec2Model ----
(***************************************************************************)
(* Model of the two dimension-table extraction scripts                     *)
(*   scripts/extraction/extract_asme_b165.py   (kind "flange")             *)
(*   scripts/extraction/extract_asme_b3610.py  (kind "pipe")               *)
(*                                                                         *)
(* A raw table (pandas DataFrame) is a sequence of rows of equal width;    *)
(* a cell is either absent (NaN) or carries the text str(val) of its       *)
(* value.  Text is a TLA+ string; its characters are read with SubSeq.     *)
(* A local value of the code that is read several times is bound once,     *)
(* as a variable ranging over a singleton:  CHOOSE r \in {F(x) : x \in {e}} *)
(* is  "x = e; return F(x)".                                               *)
(* Exponent notation ("1e5") and digit-group underscores ("1_000") are     *)
(* outside the float grammar modelled here; FloatSyntaxModelled tells      *)
(* the strings the model covers and every cell of the corpora is one.      *)
(***************************************************************************)
EXTENDS Integers, Sequences, FiniteSets, TLC

VARIABLES kind, pdf_exists, tables, idx, all_rows, pc, df_out, written,
          stdout, exc, call

vars == <<kind, pdf_exists, tables, idx, all_rows, pc, df_out, written,
          stdout, exc, call>>

(***************************************************************************)
(* Python str primitives                                                   *)
(***************************************************************************)
UpperChars == "ABCDEFGHIJKLMNOPQRSTUVWXYZ"
LowerChars == "abcdefghijklmnopqrstuvwxyz"

CharAt(s, i) == SubSeq(s, i, i)

\* str.isspace for one character (the whitespace str.strip() removes)
IsSpace(c) == c \in {" ", "\t", "\n", "\r"}

LowerChar(c) ==
    IF \E i \in 1..26 : CharAt(UpperChars, i) = c
    THEN CharAt(LowerChars, CHOOSE i \in 1..26 : CharAt(UpperChars, i) = c)
    ELSE c

UpperChar(c) ==
    IF \E i \in 1..26 : CharAt(LowerChars, i) = c
    THEN CharAt(UpperChars, CHOOSE i \in 1..26 : CharAt(LowerChars, i) = c)
    ELSE c

RECURSIVE Lower(_)
Lower(s) == IF s = "" THEN "" ELSE LowerChar(Head(s)) \o Lower(Tail(s))

RECURSIVE Upper(_)
Upper(s) == IF s = "" THEN "" ELSE UpperChar(Head(s)) \o Upper(Tail(s))

\* t in s
Contains(s, t) ==
    \E i \in 1..(Len(s) - Len(t) + 1) : SubSeq(s, i, i + Len(t) - 1) = t

StartsWith(s, t) == Len(s) >= Len(t) /\ SubSeq(s, 1, Len(t)) = t

RECURSIVE LStrip(_)
LStrip(s) == IF s # "" /\ IsSpace(Head(s)) THEN LStrip(Tail(s)) ELSE s

RECURSIVE RStrip(_)
RStrip(s) ==
    IF s # "" /\ IsSpace(CharAt(s, Len(s)))
    THEN RStrip(SubSeq(s, 1, Len(s) - 1)) ELSE s

Strip(s) == RStrip(LStrip(s))

\* s.replace(c, "") for a one-character c
RECURSIVE RemoveChar(_, _)
RemoveChar(s, c) ==
    IF s = "" THEN ""
    ELSE (IF Head(s) = c THEN "" ELSE Head(s)) \o RemoveChar(Tail(s), c)

\* s.replace(c, "", 1)
RECURSIVE RemoveFirst(_, _)
RemoveFirst(s, c) ==
    IF s = "" THEN ""
    ELSE IF Head(s) = c THEN Tail(s)
    ELSE Head(s) \o RemoveFirst(Tail(s), c)

RECURSIVE JoinSpace(_)
JoinSpace(ss) ==
    IF ss = <<>> THEN ""
    ELSE IF Len(ss) = 1 THEN ss[1]
    ELSE ss[1] \o " " \o JoinSpace(Tail(ss))

DecimalDigits == "0123456789"
IsDecimalChar(c) == \E i \in 1..10 : CharAt(DecimalDigits, i) = c
DigitValue(c) == (CHOOSE i \in 1..10 : CharAt(DecimalDigits, i) = c) - 1

\* str.isdigit: every character has the Unicode digit property (the decimal
\* digits and also digits such as superscript two), and there is one at least
IsDigit(s) ==
    /\ s # ""
    /\ \A i \in 1..Len(s) : IsDecimalChar(CharAt(s, i)) \/ CharAt(s, i) = "²"

RECURSIVE DigitsValue(_)
DigitsValue(s) ==
    IF s = "" THEN 0
    ELSE 10 * DigitsValue(SubSeq(s, 1, Len(s) - 1)) + DigitValue(CharAt(s, Len(s)))

RECURSIVE IntStr(_)
IntStr(n) ==
    IF n < 10 THEN CharAt(DecimalDigits, n + 1)
    ELSE IntStr(n \div 10) \o CharAt(DecimalDigits, (n % 10) + 1)

(***************************************************************************)
(* Python values: None, float (finite m * 10^e, m without trailing zeros,  *)
(* inf, nan), int, and the two exceptions float()/int() can raise          *)
(***************************************************************************)
Val(k, neg, m, e) == [k |-> k, neg |-> neg, m |-> m, e |-> e]
NoneVal == Val("none", FALSE, 0, 0)
NaNVal == Val("nan", FALSE, 0, 0)
InfVal(neg) == Val("inf", neg, 0, 0)
ValueError == Val("ValueError", FALSE, 0, 0)
OverflowError == Val("OverflowError", FALSE, 0, 0)
IntVal(neg, m) == Val("int", neg /\ m # 0, m, 0)

RECURSIVE Pow10(_)
Pow10(n) == IF n = 0 THEN 1 ELSE 10 * Pow10(n - 1)

RECURSIVE FloatVal(_, _, _)
FloatVal(neg, m, e) ==
    IF m = 0 THEN Val("float", neg, 0, 0)
    ELSE IF m % 10 = 0 THEN FloatVal(neg, m \div 10, e + 1)
    ELSE Val("float", neg, m, e)

IsRaise(v) == v.k \in {"ValueError", "OverflowError"}

\* digits [. digits] | . digits
IsDecimalLiteral(s) ==
    LET d == RemoveFirst(s, ".")
    IN d # "" /\ \A i \in 1..Len(d) : IsDecimalChar(CharAt(d, i))

\* s.index(".") counted from 1, for a decimal literal that has its one dot
DotPos(s) == CHOOSE i \in 1..Len(s) : CharAt(s, i) = "."

\* The float literals of the model: an optional sign before inf, infinity,
\* nan or a decimal literal.  No exponent part, no underscores.
FloatSyntaxModelled(s) ==
    LET t == Strip(s)
    IN ~(/\ \E i \in 1..Len(t) : IsDecimalChar(CharAt(t, i))
         /\ \E i \in 1..Len(t) : CharAt(t, i) \in {"e", "E", "_"}
         /\ \A i \in 1..Len(t) :
               IsDecimalChar(CharAt(t, i)) \/ CharAt(t, i) \in {"e", "E", "_", ".", "+", "-"})

\* the value of the literal body after its sign
UnsignedFloat(neg, body, word) ==
    IF word \in {"inf", "infinity"} THEN InfVal(neg)
    ELSE IF word = "nan" THEN NaNVal
    ELSE IF IsDecimalLiteral(body)
         THEN FloatVal(neg, DigitsValue(RemoveFirst(body, ".")),
                       0 - (IF Contains(body, ".") THEN Len(body) - DotPos(body) ELSE 0))
         ELSE ValueError

SignedFloat(t) ==
    IF t # "" /\ Head(t) \in {"+", "-"}
    THEN CHOOSE f \in {UnsignedFloat(Head(t) = "-", body, word) :
                         body \in {Tail(t)}, word \in {Lower(Tail(t))}} : TRUE
    ELSE CHOOSE f \in {UnsignedFloat(FALSE, t, word) : word \in {Lower(t)}} : TRUE

\* float(s): the float, or ValueError
PyFloat(s) == CHOOSE f \in {SignedFloat(t) : t \in {Strip(s)}} : TRUE

\* int(f) of a float: truncation toward zero; ValueError on nan,
\* OverflowError on an infinity
PyInt(f) ==
    IF f.k = "nan" THEN ValueError
    ELSE IF f.k = "inf" THEN OverflowError
    ELSE IF f.e >= 0 THEN IntVal(f.neg, f.m * Pow10(f.e))
    ELSE IntVal(f.neg, f.m \div Pow10(0 - f.e))

(***************************************************************************)
(* Raw tables                                                              *)
(***************************************************************************)
S(t) == [nan |-> FALSE, text |-> t]
NaN == [nan |-> TRUE, text |-> ""]
\* None where the code holds a str or None (the result of get, flange_type)
NoneStr == NaN

is_nan(x) == x.nan

normalise_header(cols) ==
    [i \in 1..Len(cols) |-> IF is_nan(cols[i]) THEN "" ELSE Strip(cols[i].text)]

\* df.empty: no rows or no columns
Empty(df) == IF Len(df) = 0 THEN TRUE ELSE Len(df[1]) = 0

\* df.shape[1]
Shape1(df) == IF Len(df) = 0 THEN 0 ELSE Len(df[1])

RECURSIVE LowerAll(_)
LowerAll(ss) == IF ss = <<>> THEN <<>> ELSE <<Lower(ss[1])>> \o LowerAll(Tail(ss))

header_str(df) == JoinSpace(LowerAll(normalise_header(df[1])))

MinColumns == 4

flange_header_test(hs) ==
    LET has_nps == Contains(hs, "nps") \/ Contains(hs, "nominal pipe size")
        has_class == Contains(hs, "class") \/ Contains(hs, "rating")
        has_od == Contains(hs, "outside") \/ Contains(hs, "o.d.") \/ Contains(hs, "od")
        has_bc == Contains(hs, "bolt circle") \/ Contains(hs, "bc")
    IN has_nps /\ (has_class \/ has_od \/ has_bc)

looks_like_flange_table(df) ==
    IF Empty(df) THEN FALSE
    ELSE IF Shape1(df) < MinColumns THEN FALSE
    ELSE \E hs \in {header_str(df)} : flange_header_test(hs)

pipe_header_test(hs) ==
    LET has_nps == Contains(hs, "nps") \/ Contains(hs, "nominal pipe size")
        has_od == Contains(hs, "outside") \/ Contains(hs, "o.d.") \/ Contains(hs, "od")
        has_wall == Contains(hs, "wall")
    IN has_nps /\ has_od /\ has_wall

\* mutant: no test of the number of columns
looks_like_pipe_table_any_width(df) ==
    IF Empty(df) THEN FALSE
    ELSE \E hs \in {header_str(df)} : pipe_header_test(hs)

looks_like_pipe_table(df) ==
    IF Empty(df) THEN FALSE
    ELSE IF Shape1(df) < MinColumns THEN FALSE
    ELSE \E hs \in {header_str(df)} : pipe_header_test(hs)

looks_like_table(k, df) ==
    IF k = "flange" THEN looks_like_flange_table(df) ELSE looks_like_pipe_table(df)

\* df.dropna(how="all")
DropNaAll(df) == SelectSeq(df, LAMBDA r : \E i \in 1..Len(r) : ~is_nan(r[i]))

(***************************************************************************)
(* Header resolution: the if/elif chain applied to one lower-cased label   *)
(* gives the field it assigns ("" when no branch is taken); the loop       *)
(* assigns col_map[field] = idx column after column.                       *)
(***************************************************************************)
NoIdx == -1

FlangeFields == {"nps", "dn", "od", "thickness", "bc", "bolt_hole_dia", "num_bolts",
                 "bolt_size", "bore", "hub_dia", "hub_len", "weight"}

PipeFields == {"nps", "dn", "od_in", "od_mm", "wall_in", "wall_mm", "wt_lb_ft",
               "wt_kg_m", "schedule"}

\* mutant: the unit test asks for the word "inch"
InchUnitWord(lower) == Contains(lower, "inch")

InchUnit(lower) == Contains(lower, "in") \/ Contains(lower, "inch")
MmUnit(lower) == Contains(lower, "mm") \/ Contains(lower, "millimeter")

FlangeRule(lower) ==
    IF Contains(lower, "nps") \/ Contains(lower, "nominal") THEN "nps"
    ELSE IF StartsWith(lower, "dn") THEN "dn"
    ELSE IF Contains(lower, "outside") /\ InchUnit(lower) THEN "od"
    ELSE IF (Contains(lower, "thickness") \/ Contains(lower, "thick")) /\ InchUnit(lower)
         THEN "thickness"
    ELSE IF Contains(lower, "bolt circle") \/ Contains(lower, "bc") THEN "bc"
    ELSE IF Contains(lower, "bolt hole") \/ (Contains(lower, "bolt") /\ Contains(lower, "dia"))
         THEN "bolt_hole_dia"
    ELSE IF (Contains(lower, "number") /\ Contains(lower, "bolt")) \/ Contains(lower, "no. of bolts")
         THEN "num_bolts"
    ELSE IF Contains(lower, "bolt size") \/ (Contains(lower, "bolt") /\ Contains(lower, "size"))
         THEN "bolt_size"
    ELSE IF Contains(lower, "bore") THEN "bore"
    ELSE IF Contains(lower, "hub") /\ Contains(lower, "dia") THEN "hub_dia"
    ELSE IF Contains(lower, "hub") /\ (Contains(lower, "length") \/ Contains(lower, "len"))
         THEN "hub_len"
    ELSE IF Contains(lower, "weight") /\ Contains(lower, "kg") THEN "weight"
    ELSE ""

PipeRule(lower) ==
    IF Contains(lower, "nps") \/ Contains(lower, "nominal") THEN "nps"
    ELSE IF StartsWith(lower, "dn") THEN "dn"
    ELSE IF Contains(lower, "outside") /\ InchUnit(lower) THEN "od_in"
    ELSE IF Contains(lower, "outside") /\ MmUnit(lower) THEN "od_mm"
    ELSE IF (Contains(lower, "wall") \/ Contains(lower, "thick")) /\ InchUnit(lower)
         THEN "wall_in"
    ELSE IF (Contains(lower, "wall") \/ Contains(lower, "thick")) /\ MmUnit(lower)
         THEN "wall_mm"
    ELSE IF (Contains(lower, "weight") \/ Contains(lower, "wt"))
            /\ (Contains(lower, "lb") \/ Contains(lower, "lbs"))
         THEN "wt_lb_ft"
    ELSE IF (Contains(lower, "weight") \/ Contains(lower, "wt")) /\ Contains(lower, "kg")
         THEN "wt_kg_m"
    ELSE IF Contains(lower, "sched") \/ Contains(lower, "sch") THEN "schedule"
    ELSE ""

Fields(k) == IF k = "flange" THEN FlangeFields ELSE PipeFields
Rule(k, lower) == IF k = "flange" THEN FlangeRule(lower) ELSE PipeRule(lower)

\* one pass of the loop body: column number i (from 1) has index i - 1
AssignColumn(k, col_map, header, i) ==
    CHOOSE m \in {IF f = "" THEN col_map ELSE [col_map EXCEPT ![f] = i - 1] :
                     f \in {Rule(k, lower) : lower \in {Lower(header[i])}}} : TRUE

RECURSIVE ResolveFrom(_, _, _, _)
ResolveFrom(k, col_map, header, i) ==
    IF i > Len(header) THEN col_map
    ELSE CHOOSE m \in {ResolveFrom(k, next, header, i + 1) :
                          next \in {AssignColumn(k, col_map, header, i)}} : TRUE

ResolveColumns(k, header) == ResolveFrom(k, [f \in Fields(k) |-> NoIdx], header, 1)

(***************************************************************************)
(* Row normalisation                                                       *)
(***************************************************************************)
get(col_map, vals, col_key) ==
    LET i == col_map[col_key]
    IN IF i = NoIdx \/ i >= Len(vals) THEN NoneStr
       ELSE IF is_nan(vals[i + 1]) THEN NoneStr
       ELSE S(Strip(vals[i + 1].text))

\* mutant: "if nps_raw is None"
FalsyNoneOnly(x) == x.nan

\* "if not nps_raw"
Falsy(x) == x.nan \/ x.text = ""

\* "try: return float(s) / except ValueError: return None"
FloatOrNone(f) == IF f.k = "ValueError" THEN NoneVal ELSE f

\* int(float(s)): a ValueError of float() or of int()
IntOfFloat(f) == IF f.k = "ValueError" THEN ValueError ELSE PyInt(f)

\* "try: return int(float(s)) / except ValueError: return None":
\* an OverflowError is not caught
IntOrNone(n) == IF n.k = "ValueError" THEN NoneVal ELSE n

to_float(x) ==
    CHOOSE r \in {IF c.nan THEN NoneVal
                  ELSE CHOOSE v \in {FloatOrNone(f) : f \in {PyFloat(Strip(RemoveChar(c.text, ",")))}} : TRUE :
                    c \in {x}} : TRUE

to_int(x) ==
    CHOOSE r \in {IF c.nan THEN NoneVal
                  ELSE CHOOSE v \in {IntOrNone(n) :
                         n \in {IntOfFloat(f) : f \in {PyFloat(Strip(RemoveChar(c.text, ",")))}}} : TRUE :
                    c \in {x}} : TRUE

\* dn_mm of the pipe script: no try/except around int(float(dn_val))
pipe_dn_mm(dn_val) ==
    CHOOSE r \in {IF ~Falsy(c) /\ IsDigit(RemoveFirst(c.text, "."))
                  THEN CHOOSE n \in {IntOfFloat(f) : f \in {PyFloat(c.text)}} : TRUE
                  ELSE NoneVal :
                    c \in {dn_val}} : TRUE

nps_inch_of(nps_raw) ==
    CHOOSE r \in {FloatOrNone(f) :
                    f \in {PyFloat(Strip(RemoveChar(nps_raw.text, "\"")))}} : TRUE

\* mutant: the schedule is not upper-cased
pressure_series_case_sensitive(schedule) ==
    LET sch == RemoveChar(schedule, " ")
    IN IF sch \in {"STD", "40", "40S"} THEN "STD"
       ELSE IF sch \in {"XS", "80", "80S"} THEN "XS"
       ELSE IF sch \in {"XXS"} THEN "XXS"
       ELSE ""

pressure_series_from_schedule(schedule) ==
    LET sch == RemoveChar(Upper(schedule), " ")
    IN IF sch \in {"STD", "40", "40S"} THEN "STD"
       ELSE IF sch \in {"XS", "80", "80S"} THEN "XS"
       ELSE IF sch \in {"XXS"} THEN "XXS"
       ELSE ""

STANDARD_NAME(k) == IF k = "flange" THEN "ASME B16.5-2022" ELSE "ASME B36.10M-2022"
SOURCE_FILE_NAME(k) == IF k = "flange" THEN "ASME B16.5.pdf" ELSE "ASME B36.10-2022.pdf"
DEFAULT_FLANGE_CATEGORY == "CS"
DEFAULT_PIPE_CATEGORY == "CS"

\* What one pass of the row loop does: "skip" (continue), "row" (append)
\* or "raise" (an exception leaves the function)
Skip == [status |-> "skip"]
Raise(e) == [status |-> "raise", exc |-> e.k]
Row(r) == [status |-> "row", row |-> r]

flange_record(col_map, vals, rating_class, flange_type, facing, nps_raw, dn_mm, number_of_bolts) ==
       IF Falsy(nps_raw) THEN Skip
       ELSE IF IsRaise(dn_mm) THEN Raise(dn_mm)
       ELSE IF IsRaise(number_of_bolts) THEN Raise(number_of_bolts)
       ELSE Row([standard |-> STANDARD_NAME("flange"),
                 nps_inch |-> nps_inch_of(nps_raw),
                 dn_mm |-> dn_mm,
                 rating_class |-> rating_class,
                 type |-> IF Falsy(flange_type) THEN "WN" ELSE flange_type.text,
                 facing |-> IF Falsy(facing) THEN "RF" ELSE facing.text,
                 bore_inch |-> to_float(get(col_map, vals, "bore")),
                 od_inch |-> to_float(get(col_map, vals, "od")),
                 thickness_inch |-> to_float(get(col_map, vals, "thickness")),
                 hub_diameter_inch |-> to_float(get(col_map, vals, "hub_dia")),
                 hub_length_inch |-> to_float(get(col_map, vals, "hub_len")),
                 bolt_circle_inch |-> to_float(get(col_map, vals, "bc")),
                 bolt_hole_diameter_inch |-> to_float(get(col_map, vals, "bolt_hole_dia")),
                 number_of_bolts |-> number_of_bolts,
                 bolt_size_inch |-> get(col_map, vals, "bolt_size"),
                 weight_kg |-> to_float(get(col_map, vals, "weight")),
                 flange_category |-> DEFAULT_FLANGE_CATEGORY,
                 b165_table |-> "",
                 b165_page |-> NoneVal,
                 source_file |-> SOURCE_FILE_NAME("flange"),
                 is_active |-> TRUE])

flange_row(col_map, vals, rating_class, flange_type, facing) ==
    CHOOSE r \in {flange_record(col_map, vals, rating_class, flange_type, facing,
                                nps_raw, dn_mm, number_of_bolts) :
                    nps_raw \in {get(col_map, vals, "nps")},
                    dn_mm \in {to_int(get(col_map, vals, "dn"))},
                    number_of_bolts \in {to_int(get(col_map, vals, "num_bolts"))}} : TRUE

\* get("schedule") or ""
OrEmpty(x) == IF Falsy(x) THEN "" ELSE x.text

pipe_record(col_map, vals, nps_raw, dn_mm, schedule) ==
       IF Falsy(nps_raw) THEN Skip
       ELSE IF IsRaise(dn_mm) THEN Raise(dn_mm)
       ELSE Row([standard |-> STANDARD_NAME("pipe"),
                 nps_inch |-> nps_inch_of(nps_raw),
                 dn_mm |-> dn_mm,
                 od_inch |-> to_float(get(col_map, vals, "od_in")),
                 od_mm |-> to_float(get(col_map, vals, "od_mm")),
                 schedule |-> schedule,
                 wall_thickness_inch |-> to_float(get(col_map, vals, "wall_in")),
                 wall_thickness_mm |-> to_float(get(col_map, vals, "wall_mm")),
                 weight_lb_per_ft |-> to_float(get(col_map, vals, "wt_lb_ft")),
                 weight_kg_per_m |-> to_float(get(col_map, vals, "wt_kg_m")),
                 pipe_category |-> DEFAULT_PIPE_CATEGORY,
                 pressure_series |-> pressure_series_from_schedule(schedule),
                 nps_display |-> Strip(nps_raw.text),
                 b3610_table |-> "",
                 b3610_page |-> NoneVal,
                 source_file |-> SOURCE_FILE_NAME("pipe"),
                 is_active |-> TRUE])

pipe_row(col_map, vals) ==
    CHOOSE r \in {pipe_record(col_map, vals, nps_raw, dn_mm, schedule) :
                    nps_raw \in {get(col_map, vals, "nps")},
                    dn_mm \in {pipe_dn_mm(get(col_map, vals, "dn"))},
                    schedule \in {OrEmpty(sched) : sched \in {get(col_map, vals, "schedule")}}} : TRUE

\* the driver calls parse_flange_rows(df): rating_class, flange_type and
\* facing keep their default None
normalize_row(k, col_map, vals) ==
    IF k = "flange" THEN flange_row(col_map, vals, NoneVal, NoneStr, NoneStr)
    ELSE pipe_row(col_map, vals)

\* the loop "for _, raw_row in data.iterrows()": rows so far, or the
\* exception that ended it
Returned(rows) == [exc |-> "", rows |-> rows]
Raised(e) == [exc |-> e, rows |-> <<>>]

RowStep(r, rows) ==
    IF r.status = "row" THEN Append(rows, r.row) ELSE rows

RECURSIVE RowLoop(_, _, _, _, _)
RowLoop(k, col_map, data, i, rows) ==
    IF i > Len(data) THEN Returned(rows)
    ELSE CHOOSE res \in
           {IF r.status = "raise" THEN Raised(r.exc)
            ELSE CHOOSE x \in {RowLoop(k, col_map, data, i + 1, acc) : acc \in {RowStep(r, rows)}} : TRUE :
              r \in {normalize_row(k, col_map, data[i])}} : TRUE

ParseFrame(k, d) ==
    IF d = <<>> THEN Raised("IndexError")
    ELSE CHOOSE res \in {RowLoop(k, col_map, data, 1, <<>>) :
                           col_map \in {ResolveColumns(k, normalise_header(d[1]))},
                           data \in {Tail(d)}} : TRUE

\* parse_flange_rows / parse_pipe_rows: df.iloc[0] of a frame without a
\* non-empty row is an IndexError
parse_rows(k, df) == CHOOSE res \in {ParseFrame(k, d) : d \in {DropNaAll(df)}} : TRUE

(***************************************************************************)
(* Deduplication: DataFrame.drop_duplicates(subset=...) keeps the first    *)
(* row of every key; in the frame None and nan are both the missing value  *)
(* and equal one another, and -0.0 equals 0.0.                             *)
(***************************************************************************)
FrameValue(v) ==
    IF v.k \in {"none", "nan"} THEN NaNVal
    ELSE IF v.k = "float" /\ v.m = 0 THEN Val("float", FALSE, 0, 0)
    ELSE v

\* mutant: subset=["nps_inch"]
subset_nps_only(k, r) == <<FrameValue(r.nps_inch)>>

subset(k, r) ==
    IF k = "flange"
    THEN <<FrameValue(r.nps_inch), FrameValue(r.rating_class), r.type, r.facing>>
    ELSE <<FrameValue(r.nps_inch), r.schedule, FrameValue(r.wall_thickness_inch)>>

\* mutant: only a repetition of the row just before is a duplicate
duplicated_adjacent(k, rows, i) == i > 1 /\ subset(k, rows[i - 1]) = subset(k, rows[i])

\* DataFrame.duplicated(keep="first") at position i
duplicated(k, rows, i) == \E j \in 1..(i - 1) : subset(k, rows[j]) = subset(k, rows[i])

RECURSIVE KeepFrom(_, _, _)
KeepFrom(k, rows, i) ==
    IF i > Len(rows) THEN <<>>
    ELSE (IF duplicated(k, rows, i) THEN <<>> ELSE <<rows[i]>>) \o KeepFrom(k, rows, i + 1)

\* mutant: keep="last"
drop_duplicates_keep_last(k, rows) ==
    LET dup(i) == \E j \in (i + 1)..Len(rows) : subset(k, rows[j]) = subset(k, rows[i])
        F[i \in 1..(Len(rows) + 1)] ==
            IF i > Len(rows) THEN <<>>
            ELSE (IF dup(i) THEN <<>> ELSE <<rows[i]>>) \o F[i + 1]
    IN F[1]

drop_duplicates(k, rows) == KeepFrom(k, rows, 1)

(***************************************************************************)
(* Inputs: the tables the extraction collaborator may hand over            *)
(***************************************************************************)
PipeHeader == <<S("NPS"), S("DN"), S("Outside Diameter (in)"), S("Wall (in)"), S("Schedule")>>

FlangeScenario ==
    << <<S("NPS"), S("Class"), S("OD (in)"), S("Bolt Circle (in)")>>,
       <<S("2"), S("150"), S("6.00"), S("4.75")>> >>

PipeScenario ==
    << PipeHeader,
       <<S("4"), S("100"), S("4.500"), S("0.237"), S("40")>> >>

\* rows that repeat a natural key, rows without NPS, fractional sizes
PipeDuplicates ==
    << PipeHeader,
       <<S("4"), S("100"), S("4.500"), S("0.237"), S("40")>>,
       <<S("4\""), S("N/A"), S("12,500"), S(" 0.237 "), S("40")>>,
       <<NaN, S("100"), S("4.5"), S("0.3"), S("80")>>,
       <<S("1/8"), S(""), S("abc"), S("N/A"), S(" xs ")>>,
       <<NaN, NaN, NaN, NaN, NaN>>,
       <<S("1/4"), S("8"), S("0.540"), NaN, S("xs")>>,
       <<S("  "), S("15"), S("0.840"), S("0.109"), S("40")>> >>

\* a second page of the same sizes
PipeSecondPage ==
    << PipeHeader,
       <<S("4.0"), S("100.0"), S("4.5"), S("0.237"), S("40")>>,
       <<S("6"), S("150"), S("6.625"), S("0.280"), S("STD")>> >>

NarrowTable ==
    << <<S("NPS"), S("Outside Diameter (in)"), S("Wall (in)")>>,
       <<S("4"), S("4.500"), S("0.237")>> >>

EmptyTable == <<>>

LeadingBlankRow ==
    << <<NaN, NaN, NaN, NaN, NaN>>,
       PipeHeader,
       <<S("4"), S("100"), S("4.500"), S("0.237"), S("40")>> >>

\* a DN cell int(float()) cannot convert
UnconvertibleDn ==
    << PipeHeader,
       <<S("2"), S("inf"), S("2.375"), S("0.154"), S("40")>>,
       <<S("3"), S("10²"), S("3.500"), S("0.216"), S("40")>> >>

\* accepted by both classifiers, and no data row has an NPS value
NoNpsRows ==
    << PipeHeader,
       <<NaN, S("100"), S("4.500"), S("0.237"), S("40")>>,
       <<S(" "), S("150"), S("6.625"), S("0.280"), S("40")>> >>

TextTable ==
    << <<S("Material"), S("Grade"), S("Specification"), S("Notes")>>,
       <<S("Carbon steel"), S("B"), S("A106"), S("seamless")>> >>

TableCorpus ==
    {FlangeScenario, PipeScenario, PipeDuplicates, PipeSecondPage, NarrowTable,
     EmptyTable, LeadingBlankRow, UnconvertibleDn, NoNpsRows, TextTable}

MaxTables == 2

RECURSIVE SeqsUpTo(_, _)
SeqsUpTo(set, n) ==
    IF n = 0 THEN {<<>>}
    ELSE LET shorter == SeqsUpTo(set, n - 1)
         IN shorter \cup {Append(q, x) : q \in shorter, x \in set}

(***************************************************************************)
(* The driver, main()                                                      *)
(***************************************************************************)
NoCall == [fn |-> "", arg |-> <<>>, returned |-> FALSE, ret |-> <<>>]

Init ==
    /\ kind \in {"flange", "pipe"}
    /\ pdf_exists \in BOOLEAN
    /\ tables \in (IF pdf_exists THEN SeqsUpTo(TableCorpus, MaxTables) ELSE {<<>>})
    /\ idx = 0
    /\ all_rows = <<>>
    /\ pc = "start"
    /\ df_out = <<>>
    /\ written = FALSE
    /\ stdout = <<>>
    /\ exc = ""
    /\ call = NoCall

\* raise FileNotFoundError
PdfNotFound ==
    /\ pc = "start"
    /\ ~pdf_exists
    /\ pc' = "raised"
    /\ exc' = "FileNotFoundError"
    /\ UNCHANGED <<kind, pdf_exists, tables, idx, all_rows, df_out, written, stdout, call>>

\* tables = extract_tables(pdf_path, args.pages)
ExtractTables ==
    /\ pc = "start"
    /\ pdf_exists
    /\ pc' = "loop"
    /\ stdout' = Append(stdout, "Found " \o IntStr(Len(tables)) \o " raw tables")
    /\ UNCHANGED <<kind, pdf_exists, tables, idx, all_rows, df_out, written, exc, call>>

\* if df is None or df.empty: continue
SkipEmpty ==
    /\ pc = "loop"
    /\ idx < Len(tables)
    /\ Empty(tables[idx + 1])
    /\ idx' = idx + 1
    /\ UNCHANGED <<kind, pdf_exists, tables, all_rows, pc, df_out, written, stdout, exc, call>>

\* if not looks_like_..._table(df): continue
SkipNotDimensionTable ==
    /\ pc = "loop"
    /\ idx < Len(tables)
    /\ ~Empty(tables[idx + 1])
    /\ ~looks_like_table(kind, tables[idx + 1])
    /\ idx' = idx + 1
    /\ UNCHANGED <<kind, pdf_exists, tables, all_rows, pc, df_out, written, stdout, exc, call>>

\* r["b165_table"] = f"Table_{idx}" / r["b3610_table"] = f"Table_{idx}"
Stamp(k, r, i) ==
    IF k = "flange" THEN [r EXCEPT !.b165_table = "Table_" \o IntStr(i), !.b165_page = NoneVal]
    ELSE [r EXCEPT !.b3610_table = "Table_" \o IntStr(i), !.b3610_page = NoneVal]

StampAll(k, rows, i) == [n \in 1..Len(rows) |-> Stamp(k, rows[n], i)]

ProcessTable ==
    /\ pc = "loop"
    /\ idx < Len(tables)
    /\ ~Empty(tables[idx + 1])
    /\ looks_like_table(kind, tables[idx + 1])
    /\ \E res \in {parse_rows(kind, tables[idx + 1])} :
          /\ res.exc = ""
          /\ all_rows' = all_rows \o StampAll(kind, res.rows, idx)
          /\ stdout' = stdout \o <<"Processing table #" \o IntStr(idx),
                                   "extracted " \o IntStr(Len(res.rows))
                                       \o " rows from table #" \o IntStr(idx)>>
    /\ idx' = idx + 1
    /\ UNCHANGED <<kind, pdf_exists, tables, pc, df_out, written, exc, call>>

\* an exception raised inside parse_..._rows leaves main()
ProcessTableRaises ==
    /\ pc = "loop"
    /\ idx < Len(tables)
    /\ ~Empty(tables[idx + 1])
    /\ looks_like_table(kind, tables[idx + 1])
    /\ \E res \in {parse_rows(kind, tables[idx + 1])} :
          /\ res.exc # ""
          /\ exc' = res.exc
    /\ pc' = "raised"
    /\ stdout' = Append(stdout, "Processing table #" \o IntStr(idx))
    /\ UNCHANGED <<kind, pdf_exists, tables, idx, all_rows, df_out, written, call>>

\* if not all_rows: print("WARNING: ..."); return
WarnNoRows ==
    /\ pc = "loop"
    /\ idx = Len(tables)
    /\ all_rows = <<>>
    /\ stdout' = Append(stdout, "WARNING: no rows extracted")
    /\ pc' = "done"
    /\ UNCHANGED <<kind, pdf_exists, tables, idx, all_rows, df_out, written, exc, call>>

\* df_out = DataFrame(all_rows).drop_duplicates(subset=...); df_out.to_csv(...)
DeduplicateAndSave ==
    /\ pc = "loop"
    /\ idx = Len(tables)
    /\ all_rows # <<>>
    /\ df_out' = drop_duplicates(kind, all_rows)
    /\ written' = TRUE
    /\ stdout' = Append(stdout, "Saved " \o IntStr(Len(df_out')) \o " rows")
    /\ pc' = "done"
    /\ UNCHANGED <<kind, pdf_exists, tables, idx, all_rows, exc, call>>

Next ==
    \/ PdfNotFound
    \/ ExtractTables
    \/ SkipEmpty
    \/ SkipNotDimensionTable
    \/ ProcessTable
    \/ ProcessTableRaises
    \/ WarnNoRows
    \/ DeduplicateAndSave

Spec == Init /\ [][Next]_vars

(***************************************************************************)
(* The functions called one at a time, on inputs the driver would not all  *)
(* pass them: looks_like_..._table(df), parse_..._rows(df),                *)
(* pressure_series_from_schedule(schedule) and                             *)
(* DataFrame(rows).drop_duplicates(subset=...).                            *)
(***************************************************************************)
\* cell texts met in extracted tables
CellCorpus ==
    {"12,500", "50.0", "N/A", "", "abc", " 6.00 ", "0.237", "inf", "nan", "10²",
     "-3.7", "1.2.3", "100"}

\* every converted column next to an NPS value: DN (int), OD and wall
\* (float), number of bolts (int, flange only)
CoerceHeader ==
    <<S("NPS"), S("DN"), S("Outside Diameter (in)"), S("Wall Thickness (in)"),
      S("No. of Bolts")>>

CoerceTable(c) == <<CoerceHeader, <<S("2"), S(c), S(c), S(c), S(c)>>>>

CoerceTables == {CoerceTable(c) : c \in CellCorpus}

\* the layout of the docstring of parse_pipe_rows
DocLayout ==
    << <<S("NPS"), S("DN"), S("Outside Diameter (in)"), S("Outside Diameter (mm)"),
         S("Wall (in)"), S("Wall (mm)"), S("Weight (lb/ft)"), S("Weight (kg/m)"),
         S("Schedule")>>,
       <<S("4"), S("100"), S("4.500"), S("114.3"), S("0.237"), S("6.02"),
         S("10.79"), S("16.07"), S("40")>> >>

SpelledUnits ==
    << <<S("Nominal Pipe Size"), S("Outside Diameter (inch)"),
         S("Outside Diameter (millimeter)"), S("Wall Thickness (inch)"),
         S("Wall Thickness (millimeter)")>>,
       <<S("4"), S("4.500"), S("114.3"), S("0.237"), S("6.02")>> >>

\* a minimum wall in millimetres beside the wall in inches
MinimumWall ==
    << <<S("NPS"), S("Outside Diameter (in)"), S("Outside Diameter (mm)"),
         S("Wall (in)"), S("Min Wall (mm)")>>,
       <<S("4"), S("4.500"), S("114.3"), S("0.237"), S("5.27")>> >>

HeaderTables == {DocLayout, SpelledUnits, MinimumWall}

\* a page that prints the outside diameter and the thickness twice
RepeatedLabels ==
    << <<S("NPS"), S("Outside Diameter (in)"), S("Wall Thickness (in)"), S("Schedule"),
         S("Outside Diameter (inch)"), S("Thickness (in)")>>,
       <<S("4"), S("4.500"), S("0.237"), S("40"), S("4.5"), S("0.25")>> >>

\* fewer than four columns, every keyword in the first row
OneColumn ==
    << <<S("NPS Class Outside Diameter Bolt Circle Wall")>>,
       <<S("4")>> >>

TwoColumns ==
    << <<S("Nominal Pipe Size"), S("O.D. / Wall / Rating")>>,
       <<S("4"), S("4.500")>> >>

\* rows and no columns
NoColumns == << <<>>, <<>> >>

NarrowTables == {OneColumn, TwoColumns, NarrowTable, NoColumns}

UnitTables ==
    TableCorpus \cup CoerceTables \cup HeaderTables \cup NarrowTables \cup {RepeatedLabels}

ScheduleCorpus ==
    {"40S", " xs ", "150", "", "STD", "std", "Xs", "80", "80s", "XXS", "x x s",
     "40", "XS", "S T D", "4\t0", "SCH 40", "xxs\n", "160"}

EightyPage ==
    << PipeHeader,
       <<S("4"), S("100"), S("4.500"), S("0.337"), S("80")>> >>

Range(q) == {q[i] : i \in 1..Len(q)}

\* records to deduplicate: what the scripts extract from three pages
RecordPool(k) ==
    Range(parse_rows(k, PipeDuplicates).rows) \cup Range(parse_rows(k, PipeSecondPage).rows)
        \cup Range(parse_rows(k, EightyPage).rows)

MaxList == 3

Calls ==
    [fn : {"looks_like_table", "parse_rows"}, k : {"flange", "pipe"}, arg : UnitTables]
    \cup [fn : {"pressure_series_from_schedule"}, k : {"pipe"}, arg : ScheduleCorpus]
    \cup UNION {[fn : {"drop_duplicates"}, k : {k}, arg : SeqsUpTo(RecordPool(k), MaxList)] :
                  k \in {"flange", "pipe"}}

UnitInit ==
    /\ \E c \in Calls :
          /\ kind = c.k
          /\ call = [fn |-> c.fn, arg |-> c.arg, returned |-> FALSE, ret |-> <<>>]
    /\ pdf_exists = TRUE
    /\ tables = <<>>
    /\ idx = 0
    /\ all_rows = <<>>
    /\ pc = "call"
    /\ df_out = <<>>
    /\ written = FALSE
    /\ stdout = <<>>
    /\ exc = ""

Return(v) ==
    /\ call' = [call EXCEPT !.returned = TRUE, !.ret = v]
    /\ pc' = "returned"
    /\ UNCHANGED <<kind, pdf_exists, tables, idx, all_rows, df_out, written, stdout, exc>>

CallLooksLike ==
    /\ pc = "call"
    /\ call.fn = "looks_like_table"
    /\ Return(looks_like_table(kind, call.arg))

CallParseRows ==
    /\ pc = "call"
    /\ call.fn = "parse_rows"
    /\ Return(parse_rows(kind, call.arg))

CallPressureSeries ==
    /\ pc = "call"
    /\ call.fn = "pressure_series_from_schedule"
    /\ Return(pressure_series_from_schedule(call.arg))

CallDropDuplicates ==
    /\ pc = "call"
    /\ call.fn = "drop_duplicates"
    /\ Return(drop_duplicates(kind, call.arg))

UnitNext ==
    \/ CallLooksLike
    \/ CallParseRows
    \/ CallPressureSeries
    \/ CallDropDuplicates

UnitSpec == UnitInit /\ [][UnitNext]_vars

(***************************************************************************)
(* Properties                                                              *)
(***************************************************************************)
F(m, e) == Val("float", FALSE, m, e)
I(m) == Val("int", FALSE, m, 0)

IsNull(v) == v.k \in {"none", "nan"}

\* two key components are the same: both null, or the same number
SameValue(a, b) ==
    IF IsNull(a) \/ IsNull(b) THEN IsNull(a) /\ IsNull(b)
    ELSE a = b \/ (a.k = b.k /\ a.m = 0 /\ b.m = 0)

\* the natural key of two records is the same
SameKey(k, r1, r2) ==
    IF k = "flange"
    THEN /\ SameValue(r1.nps_inch, r2.nps_inch)
         /\ SameValue(r1.rating_class, r2.rating_class)
         /\ r1.type = r2.type
         /\ r1.facing = r2.facing
    ELSE /\ SameValue(r1.nps_inch, r2.nps_inch)
         /\ r1.schedule = r2.schedule
         /\ SameValue(r1.wall_thickness_inch, r2.wall_thickness_inch)

PairwiseDistinct(k, rows) ==
    \A i, j \in 1..Len(rows) : i # j => ~SameKey(k, rows[i], rows[j])

\* the records of the accepted tables, table after table, row after row
RECURSIVE InputOrder(_, _, _)
InputOrder(k, tbls, i) ==
    IF i > Len(tbls) THEN <<>>
    ELSE (IF ~Empty(tbls[i]) /\ looks_like_table(k, tbls[i])
          THEN StampAll(k, parse_rows(k, tbls[i]).rows, i - 1) ELSE <<>>)
         \o InputOrder(k, tbls, i + 1)

\* position in rows of the first record with the key of r
FirstWithKey(k, rows, r) ==
    CHOOSE j \in 1..Len(rows) :
        /\ SameKey(k, rows[j], r)
        /\ \A h \in 1..(j - 1) : ~SameKey(k, rows[h], r)

TableOf(k, r) == IF k = "flange" THEN r.b165_table ELSE r.b3610_table

\* C1: when the driver has written its output, the output holds one record
\* per natural key (null equal to null only), every key of the input is
\* kept, the record kept for a key is the first one in input order (table
\* order, then row order), and the kept records are in first-occurrence order.
C1_FirstSeenWins ==
    (pc = "done" /\ written) =>
        /\ all_rows = InputOrder(kind, tables, 1)
        /\ PairwiseDistinct(kind, df_out)
        /\ \A j \in 1..Len(all_rows) :
              \E i \in 1..Len(df_out) : SameKey(kind, df_out[i], all_rows[j])
        /\ \A i \in 1..Len(df_out) :
              /\ \E j \in 1..Len(all_rows) : SameKey(kind, all_rows[j], df_out[i])
              /\ df_out[i] = all_rows[FirstWithKey(kind, all_rows, df_out[i])]
        /\ \A i, h \in 1..Len(df_out) :
              i < h => FirstWithKey(kind, all_rows, df_out[i])
                         < FirstWithKey(kind, all_rows, df_out[h])

\* a run in which a later table repeats a key of an earlier table, a table
\* repeats a key with a null component, and the output has lost records
C1_Witness ==
    /\ pc = "done"
    /\ written
    /\ Len(df_out) < Len(all_rows)
    /\ \E i, j \in 1..Len(all_rows) :
          /\ i < j
          /\ SameKey(kind, all_rows[i], all_rows[j])
          /\ TableOf(kind, all_rows[i]) # TableOf(kind, all_rows[j])
    /\ \E i, j \in 1..Len(all_rows) :
          /\ i < j
          /\ SameKey(kind, all_rows[i], all_rows[j])
          /\ IsNull(all_rows[i].nps_inch)

Accepted(i) == \E n \in 1..Len(stdout) : stdout[n] = "Processing table #" \o IntStr(i)

\* C2: the flange run over the one table of the scenario accepts the table
\* and writes exactly one record, with nps_inch 2.0, od_inch 6.0,
\* bolt_circle_inch 4.75, type "WN", facing "RF" and rating_class null.
C2_FlangeScenario ==
    (kind = "flange" /\ tables = <<FlangeScenario>> /\ pc \in {"done", "raised"}) =>
        /\ pc = "done"
        /\ Accepted(0)
        /\ Len(df_out) = 1
        /\ df_out[1].nps_inch = F(2, 0)
        /\ df_out[1].od_inch = F(6, 0)
        /\ df_out[1].bolt_circle_inch = F(475, -2)
        /\ df_out[1].type = "WN"
        /\ df_out[1].facing = "RF"
        /\ df_out[1].rating_class = NoneVal

CoerceCell(t) == t[2][2].text

CoerceCall == call.fn = "parse_rows" /\ call.returned /\ call.arg \in CoerceTables

\* C3: coercion never raises; "12,500" gives 12500.0 as float and 12500 as
\* integer, "50.0" gives integer 50, in the flange and in the pipe script;
\* "N/A", "" and "abc" give null, and the row is emitted all the same.
C3_CoercionNeverRaises ==
    CoerceCall =>
        /\ call.ret.exc = ""
        /\ Len(call.ret.rows) = 1
        /\ CoerceCell(call.arg) = "12,500" =>
              /\ call.ret.rows[1].od_inch = F(125, 2)
              /\ call.ret.rows[1].dn_mm = I(12500)
        /\ CoerceCell(call.arg) = "50.0" => call.ret.rows[1].dn_mm = I(50)
        /\ CoerceCell(call.arg) \in {"N/A", "", "abc"} =>
              /\ call.ret.rows[1].od_inch = NoneVal
              /\ call.ret.rows[1].dn_mm = NoneVal

\* the row has a value in column col (a 0-based index, NoIdx if unresolved)
HasNps(col, row) ==
    IF col = NoIdx THEN FALSE
    ELSE IF col >= Len(row) THEN FALSE
    ELSE IF row[col + 1].nan THEN FALSE
    ELSE Strip(row[col + 1].text) # ""

\* the data rows of a frame that have an NPS value, in order
NpsRows(k, df) ==
    LET d == DropNaAll(df)
        col == ResolveColumns(k, normalise_header(d[1])).nps
    IN SelectSeq(Tail(d), LAMBDA row : HasNps(col, row))

NpsText(k, df, n) ==
    LET d == DropNaAll(df)
        col == ResolveColumns(k, normalise_header(d[1])).nps
    IN Strip(NpsRows(k, df)[n][col + 1].text)

\* C4: when parse_..._rows returns, it has produced one record for every
\* data row that has a value in the resolved NPS column, in order, and none
\* for a row whose NPS column is unresolved, absent or blank; the records
\* are never more than the data rows.
C4_OnlyMissingNpsDrops ==
    (call.fn = "parse_rows" /\ call.returned /\ call.ret.exc = "") =>
        /\ Len(call.ret.rows) = Len(NpsRows(kind, call.arg))
        /\ Len(call.ret.rows) <= Len(call.arg) - 1
        /\ \A n \in 1..Len(call.ret.rows) :
              /\ call.ret.rows[n].nps_inch = nps_inch_of(S(NpsText(kind, call.arg, n)))
              /\ kind = "pipe" => call.ret.rows[n].nps_display = NpsText(kind, call.arg, n)

\* a table with an absent NPS, a blank NPS and an all-empty row among rows
\* that have one
C4_Witness ==
    /\ call.fn = "parse_rows"
    /\ call.returned
    /\ call.arg = PipeDuplicates
    /\ call.ret.exc = ""
    /\ Len(call.ret.rows) = 4
    /\ Len(call.arg) = 8

EndsWith(s, t) == Len(s) >= Len(t) /\ SubSeq(s, Len(s) - Len(t) + 1, Len(s)) = t
InchQualified(lower) == EndsWith(lower, "(in)") \/ EndsWith(lower, "(inch)")
MmQualified(lower) == EndsWith(lower, "(mm)") \/ EndsWith(lower, "(millimeter)")
Quantity(lower) ==
    IF Contains(lower, "outside") THEN "od"
    ELSE IF Contains(lower, "wall") \/ Contains(lower, "thick") THEN "wall"
    ELSE ""

\* C5: in a pipe header that has an inch column and an mm column of the same
\* quantity, the inch column is mapped to od_in / wall_in and the mm column
\* to od_mm / wall_mm, and no mm column is taken by an inch rule.
C5_InchAndMmDistinct ==
    (kind = "pipe" /\ call.fn = "parse_rows" /\ call.returned /\ call.arg \in HeaderTables) =>
        LET header == LowerAll(normalise_header(call.arg[1]))
            col_map == ResolveColumns("pipe", normalise_header(call.arg[1]))
        IN \A i, j \in 1..Len(header) :
              (/\ InchQualified(header[i])
               /\ MmQualified(header[j])
               /\ Quantity(header[i]) # ""
               /\ Quantity(header[i]) = Quantity(header[j])) =>
                  /\ PipeRule(header[j]) \notin {"od_in", "wall_in"}
                  /\ col_map[Quantity(header[i]) \o "_in"] = i - 1
                  /\ col_map[Quantity(header[j]) \o "_mm"] = j - 1

SeriesOf(sch) ==
    IF sch \in {"STD", "40", "40S"} THEN "STD"
    ELSE IF sch \in {"XS", "80", "80S"} THEN "XS"
    ELSE IF sch = "XXS" THEN "XXS"
    ELSE ""

RECURSIVE RemoveWhitespace(_)
RemoveWhitespace(s) ==
    IF s = "" THEN ""
    ELSE (IF IsSpace(Head(s)) THEN "" ELSE Head(s)) \o RemoveWhitespace(Tail(s))

\* C6 as stated: the series is the lookup of the schedule upper-cased and
\* with its whitespace removed.
C6_WhitespaceInsensitive ==
    (call.fn = "pressure_series_from_schedule" /\ call.returned) =>
        /\ call.ret \in {"STD", "XS", "XXS", ""}
        /\ call.ret = SeriesOf(RemoveWhitespace(Upper(call.arg)))

\* C6 amended: the mapping is total and insensitive to case and to space
\* characters: the series is the lookup of the schedule upper-cased and with
\* its spaces (U+0020) removed, "" for every other value; a pipe record
\* carries the series of its schedule, "" when the row has no schedule cell.
C6_SpaceInsensitive ==
    /\ (call.fn = "pressure_series_from_schedule" /\ call.returned) =>
          /\ call.ret \in {"STD", "XS", "XXS", ""}
          /\ call.ret = SeriesOf(RemoveChar(Upper(call.arg), " "))
    /\ (kind = "pipe" /\ call.fn = "parse_rows" /\ call.returned) =>
          \A n \in 1..Len(call.ret.rows) :
              call.ret.rows[n].pressure_series
                  = SeriesOf(RemoveChar(Upper(call.ret.rows[n].schedule), " "))

\* a lower-case schedule between spaces is mapped
C6_Witness ==
    /\ call.fn = "pressure_series_from_schedule"
    /\ call.returned
    /\ call.arg = " xs "
    /\ call.ret = "XS"

\* C7: deduplicating the result of a deduplication changes nothing, and a
\* list whose natural keys are pairwise distinct is returned as it is.
C7_DedupIdempotent ==
    (call.fn = "drop_duplicates" /\ call.returned) =>
        /\ drop_duplicates(kind, call.ret) = call.ret
        /\ PairwiseDistinct(kind, call.arg) => call.ret = call.arg

\* a list of three records of which one repeats a key
C7_Witness ==
    /\ call.fn = "drop_duplicates"
    /\ call.returned
    /\ Len(call.arg) = 3
    /\ Len(call.ret) = 2
    /\ kind = "pipe"

\* C8: a table without rows or with fewer than 4 columns is rejected by the
\* classifier of either kind.
C8_NarrowRejected ==
    (/\ call.fn = "looks_like_table"
     /\ call.returned
     /\ (IF Len(call.arg) = 0 THEN TRUE ELSE Len(call.arg[1]) < 4)) =>
        call.ret = FALSE

\* three columns whose header has the NPS, outside-diameter and wall tokens
C8_Witness ==
    /\ call.fn = "looks_like_table"
    /\ call.returned
    /\ call.arg = NarrowTable
    /\ kind = "pipe"
    /\ pipe_header_test(header_str(call.arg))
    /\ call.ret = FALSE

\* C9: the pipe run over the one table of the scenario accepts the table and
\* writes one record with nps_inch 4.0, dn_mm 100, od_inch 4.5,
\* wall_thickness_inch 0.237, schedule "40" and pressure_series "STD".
C9_PipeScenario ==
    (kind = "pipe" /\ tables = <<PipeScenario>> /\ pc \in {"done", "raised"}) =>
        /\ pc = "done"
        /\ Accepted(0)
        /\ Len(df_out) = 1
        /\ df_out[1].nps_inch = F(4, 0)
        /\ df_out[1].dn_mm = I(100)
        /\ df_out[1].od_inch = F(45, -1)
        /\ df_out[1].wall_thickness_inch = F(237, -3)
        /\ df_out[1].schedule = "40"
        /\ df_out[1].pressure_series = "STD"

C9_Witness ==
    /\ kind = "pipe"
    /\ tables = <<PipeScenario>>
    /\ pc = "done"
    /\ written
    /\ Len(df_out) = 1

Warned == \E n \in 1..Len(stdout) : stdout[n] = "WARNING: no rows extracted"

\* C10: a run over tables of which none has yielded a record ends without
\* raising: it prints the warning, the result is empty, and neither the
\* deduplication nor the writer has run.
C10_NoRecordsWarns ==
    (pdf_exists /\ pc \in {"done", "raised"} /\ all_rows = <<>>) =>
        /\ pc = "done"
        /\ Warned
        /\ df_out = <<>>
        /\ ~written

\* index of the leftmost column whose label is given field f by the rule
\* chain, NoIdx when no label is
LeftmostMatch(k, header, f) ==
    IF \E i \in 1..Len(header) : Rule(k, Lower(header[i])) = f
    THEN (CHOOSE i \in 1..Len(header) :
             /\ Rule(k, Lower(header[i])) = f
             /\ \A j \in 1..(i - 1) : Rule(k, Lower(header[j])) # f) - 1
    ELSE NoIdx

\* C11: when parse_..._rows has run on a table with a header row, the column
\* map it resolved holds for every canonical field the index of the leftmost
\* column whose label matched that field (a later matching column never
\* overwrites it), and NoIdx for a field no label matched.
C11_FirstMatchWins ==
    (call.fn = "parse_rows" /\ call.returned /\ DropNaAll(call.arg) # <<>>) =>
        \E header \in {normalise_header(DropNaAll(call.arg)[1])} :
            \E col_map \in {ResolveColumns(kind, header)} :
                \A f \in Fields(kind) : col_map[f] = LeftmostMatch(kind, header, f)

\* the lower-cased text of the first row of df that has a value ("" when no
\* row has one): the row parse_..._rows takes as header
FirstNonEmptyRowText(df) ==
    IF DropNaAll(df) = <<>> THEN ""
    ELSE JoinSpace(LowerAll(normalise_header(DropNaAll(df)[1])))

HeaderTokens(k, hs) ==
    IF k = "flange" THEN flange_header_test(hs) ELSE pipe_header_test(hs)

\* C12: the classifier accepts a table of at least four columns exactly when
\* the text of its first non-empty row holds the tokens of the kind (flange:
\* NPS and one of class/rating, outside diameter, bolt circle; pipe: NPS,
\* outside diameter and wall), whatever all-empty rows precede that row.
C12_ClassifierFirstNonEmptyRow ==
    (call.fn = "looks_like_table" /\ call.returned /\ Shape1(call.arg) >= MinColumns) =>
        \E hs \in {FirstNonEmptyRowText(call.arg)} :
            call.ret = HeaderTokens(kind, hs)

\* the NPS text is not a float literal once the inch mark is removed
NotFloatLiteral(t) == PyFloat(RemoveChar(t, "\"")).k = "ValueError"

\* C13: when parse_..._rows returns, every data row whose NPS value is not a
\* float literal after removing the inch mark has its record, with nps_inch
\* null and with the NPS text kept in the record's display field
\* nps_display, for the flange and for the pipe kind.
C13_FractionalNpsKept ==
    (call.fn = "parse_rows" /\ call.returned /\ call.ret.exc = "") =>
        /\ Len(call.ret.rows) = Len(NpsRows(kind, call.arg))
        /\ \A n \in 1..Len(call.ret.rows) :
              \E t \in {NpsText(kind, call.arg, n)} :
                  NotFloatLiteral(t) =>
                      /\ call.ret.rows[n].nps_inch = NoneVal
                      /\ "nps_display" \in DOMAIN call.ret.rows[n]
                      /\ call.ret.rows[n].nps_display = t

\* position in rows of the first record with the nominal size of r
FirstWithNps(rows, r) ==
    CHOOSE j \in 1..Len(rows) :
        /\ SameValue(rows[j].nps_inch, r.nps_inch)
        /\ \A h \in 1..(j - 1) : ~SameValue(rows[h].nps_inch, r.nps_inch)

\* the index of the table a flange record was read from
TableIndex(r) == CHOOSE n \in 0..Len(tables) : r.b165_table = "Table_" \o IntStr(n)

\* C14: in a flange run every record has rating_class null, type "WN" and
\* facing "RF"; hence the written output has at most one record per nps_inch
\* value (at most one with nps_inch null), and the record kept for a size is
\* the first one of that size in input order, that of the lowest-index table.
C14_OneRecordPerNps ==
    kind = "flange" =>
        /\ \A j \in 1..Len(all_rows) :
              /\ all_rows[j].rating_class = NoneVal
              /\ all_rows[j].type = "WN"
              /\ all_rows[j].facing = "RF"
        /\ (pc = "done" /\ written) =>
              /\ \A i, h \in 1..Len(df_out) :
                    i # h => ~SameValue(df_out[i].nps_inch, df_out[h].nps_inch)
              /\ \A j \in 1..Len(all_rows) :
                    \E i \in 1..Len(df_out) :
                        SameValue(df_out[i].nps_inch, all_rows[j].nps_inch)
              /\ \A i \in 1..Len(df_out) :
                    /\ df_out[i].rating_class = NoneVal
                    /\ df_out[i].type = "WN"
                    /\ df_out[i].facing = "RF"
                    /\ \E j \in 1..Len(all_rows) :
                          SameValue(all_rows[j].nps_inch, df_out[i].nps_inch)
                    /\ df_out[i] = all_rows[FirstWithNps(all_rows, df_out[i])]
                    /\ \A j \in 1..Len(all_rows) :
                          SameValue(all_rows[j].nps_inch, df_out[i].nps_inch) =>
                              TableIndex(df_out[i]) <= TableIndex(all_rows[j])

\* a flange run over two tables that share a nominal size, with two sizes
\* that are not float literals and a size that returns after other rows
C14_Witness ==
    /\ kind = "flange"
    /\ pc = "done"
    /\ written
    /\ Len(tables) = 2
    /\ \E i, j \in 1..Len(all_rows) :
          /\ i + 1 < j
          /\ ~IsNull(all_rows[i].nps_inch)
          /\ SameValue(all_rows[i].nps_inch, all_rows[j].nps_inch)
          /\ all_rows[i].b165_table = "Table_0"
          /\ all_rows[j].b165_table = "Table_1"
    /\ \E i, j \in 1..Len(all_rows) :
          /\ i < j
          /\ IsNull(all_rows[i].nps_inch)
          /\ IsNull(all_rows[j].nps_inch)
    /\ Cardinality({i \in 1..Len(df_out) : IsNull(df_out[i].nps_inch)}) = 1
    /\ Len(df_out) < Len(all_rows)

====
